---- MODULE Spec2Model ----
(***************************************************************************)
(* Speedometer: the location-to-speed pipeline of src/App.tsx.             *)
(*                                                                         *)
(* JavaScript numbers are modelled as exact rationals <<n, d>> (d > 0, in  *)
(* lowest terms); null is the pair <<0, 0>>.  Floating-point rounding is   *)
(* not modelled.  React state is modelled at the value the setters have    *)
(* queued; what a callback closed over at the last render is kept apart in *)
(* `rendered`, because the callbacks registered with the browser read the  *)
(* values of the render that created them.                                 *)
(***************************************************************************)
EXTENDS Integers, Sequences, FiniteSets, TLC

\* ------------------------------------------------------------------ bounds
MaxEvents == 3

\* --------------------------------------------------------------- numbers
NULL == <<0, 0>>

RECURSIVE GCD(_, _)
GCD(a, b) == IF b = 0 THEN a ELSE GCD(b, a % b)

Abs(n) == IF n < 0 THEN -n ELSE n

Norm(n, d) == LET g == GCD(Abs(n), d) IN <<n \div g, d \div g>>

Num(n) == <<n, 1>>

RAdd(a, b) == Norm(a[1] * b[2] + b[1] * a[2], a[2] * b[2])

RSub(a, b) == Norm(a[1] * b[2] - b[1] * a[2], a[2] * b[2])

RMul(a, b) == Norm(a[1] * b[1], a[2] * b[2])

\* a / b, used only where the code divides by a strictly positive number
RDiv(a, b) == Norm(a[1] * b[2], a[2] * b[1])

RLt(a, b) == a[1] * b[2] < b[1] * a[2]

RGt(a, b) == RLt(b, a)

RGe(a, b) == ~RLt(a, b)

RMax(a, b) == IF RLt(a, b) THEN b ELSE a

\* JavaScript truthiness of a number-or-null: null and 0 are falsy
Truthy(x) == x # NULL /\ x[1] # 0

\* ----------------------------------------------------------------- units
MS == "m/s"
MH == "m/h"
KMH == "km/h"
MPH == "mph"

SpeedUnit == {MS, MH, KMH, MPH}

\* m/s -> unit scaling table of utils/conversions.ts
convertFromMS(s, u) ==
    CASE u = MS  -> RMul(s, Num(1))
      [] u = MH  -> RMul(s, Num(3600))
      [] u = KMH -> RMul(s, <<18, 5>>)
      [] u = MPH -> RMul(s, <<111847, 50000>>)

\* great-circle distance of utils/conversions.ts, for two points of one
\* meridian; coordinates are arc lengths in metres along it (R * radians)
haversineDistance(lat1, lon1, lat2, lon2) == Num(Abs(lat1 - lat2))

\* ------------------------------------------------------- pipeline helpers
RECURSIVE SumSeq(_)
SumSeq(s) == IF s = <<>> THEN Num(0) ELSE RAdd(Head(s), SumSeq(Tail(s)))

BufferCapacity == 10

isUnreliableAbove75(gpsAccuracy) == Truthy(gpsAccuracy) /\ RGt(gpsAccuracy, Num(75))

\* gpsAccuracy && gpsAccuracy > 60
isUnreliable(gpsAccuracy) == Truthy(gpsAccuracy) /\ RGt(gpsAccuracy, Num(60))

isTrustedSpeedAnyReported(speed) == speed # NULL

\* speed !== null && speed >= 0.3
isTrustedSpeed(speed) == speed # NULL /\ RGe(speed, <<3, 10>>)

distMeters(last, fix) ==
    haversineDistance(last.lat, last.lng, fix.latitude, fix.longitude)

timeDiffSecondsAbsolute(last, fix) == Norm(Abs(fix.timestamp - last.timestamp), 1000)

\* (timestamp - lastLocation.current.timestamp) / 1000
timeDiffSeconds(last, fix) == Norm(fix.timestamp - last.timestamp, 1000)

\* Math.max(2, (gpsAccuracy || 5) * 0.25)
movementThreshold(gpsAccuracy) ==
    RMax(Num(2), RMul(IF Truthy(gpsAccuracy) THEN gpsAccuracy ELSE Num(5), <<1, 4>>))

isSignificantMovementInclusive(dist, gpsAccuracy) ==
    RGe(dist, movementThreshold(gpsAccuracy))

isSignificantMovement(dist, gpsAccuracy) == RGt(dist, movementThreshold(gpsAccuracy))

accruesTripOnZeroElapsed(loc, fix) ==
    /\ loc # <<>>
    /\ RGe(timeDiffSeconds(loc[1], fix), Num(0))
    /\ isSignificantMovement(distMeters(loc[1], fix), fix.accuracy)

accruesTripWheneverTimePasses(loc, fix) ==
    /\ loc # <<>>
    /\ RGt(timeDiffSeconds(loc[1], fix), Num(0))

\* the branch that adds to totalDistance / totalTime; loc is the ref's value,
\* <<>> when null and <<l>> otherwise
accruesTrip(loc, fix) ==
    /\ loc # <<>>
    /\ RGt(timeDiffSeconds(loc[1], fix), Num(0))
    /\ isSignificantMovement(distMeters(loc[1], fix), fix.accuracy)

\* the value of currentSpeed when it is pushed
currentSpeed(loc, fix) ==
    LET initial == IF isTrustedSpeed(fix.speed) THEN fix.speed ELSE Num(0)
    IN  IF loc = <<>> THEN initial
        ELSE IF ~RGt(timeDiffSeconds(loc[1], fix), Num(0)) THEN initial
        ELSE IF isSignificantMovement(distMeters(loc[1], fix), fix.accuracy)
             THEN IF ~isTrustedSpeed(fix.speed)
                  THEN RDiv(distMeters(loc[1], fix), timeDiffSeconds(loc[1], fix))
                  ELSE initial
             ELSE IF ~isTrustedSpeed(fix.speed) THEN Num(0) ELSE initial

baselineWithoutTimestamp(fix) ==
    <<[lat |-> fix.latitude, lng |-> fix.longitude, accuracy |-> fix.accuracy,
       heading |-> fix.heading, timestamp |-> 0]>>

\* what lastLocation.current holds once the handler has stored the fix
baselineOf(fix) ==
    <<[lat |-> fix.latitude, lng |-> fix.longitude, accuracy |-> fix.accuracy,
       heading |-> fix.heading, timestamp |-> fix.timestamp]>>

pushSampleNoShift(buf, x) == Append(buf, x)

\* push, then shift when the length exceeds the capacity
pushSample(buf, x) ==
    LET b == Append(buf, x) IN IF Len(b) > BufferCapacity THEN Tail(b) ELSE b

smoothSpeedOverCapacity(buf) == RDiv(SumSeq(buf), Num(BufferCapacity))

\* reduce((a, b) => a + b, 0) / length
smoothSpeed(buf) == RDiv(SumSeq(buf), Num(Len(buf)))

finalDisplaySpeedUnclamped(smooth) == smooth

\* smoothSpeed < 0.1 ? 0 : smoothSpeed
finalDisplaySpeed(smooth) == IF RLt(smooth, <<1, 10>>) THEN Num(0) ELSE smooth

\* finalDisplaySpeed > maxSpeedMS, with the maxSpeedMS the callback closed over
nextMaxSpeed(display, closedOverMax, stateMax) ==
    IF RGt(display, closedOverMax) THEN display ELSE stateMax

averageSpeedInverted(distance, time) == RDiv(time, distance)

\* totalDistance.current / totalTime.current
averageSpeed(distance, time) == RDiv(distance, time)

emptyBuffer == <<>>

\* Array(10).fill(0)
zeroBuffer == [i \in 1..BufferCapacity |-> Num(0)]

isOverLimitIgnoringUnit(s, u, limit) == RGt(s, limit)

\* the alert latch's comparison
isOverLimit(s, u, limit) == RGt(convertFromMS(s, u), limit)

\* ---------------------------------------------------------------- inputs
Latitudes == {0, 4}
FarLatitude == 100
Longitudes == {0}
Timestamps == {1000, 3000, 5000}

\* where the device is when: out by 4 m between 1 s and 3 s, back by 5 s,
\* and a second report at 5 s from 4 m
Track == {<<0, 1000>>, <<4, 3000>>, <<0, 5000>>, <<4, 5000>>}

OnTrack(fix) == <<fix.latitude, fix.timestamp>> \in Track

\* Fixes on the track that the handler accepts: with no accuracy, and a speed
\* that is absent, below the trust threshold, slow or fast; with an accuracy
\* of 16 m, and a speed that is absent or fast; and with a heading.  Fixes of
\* accuracy 75 m carry a trusted speed and a heading, and arrive from the
\* track or from far off it.  One speedless fix arrives 80 s after the start
\* of the track.
Fixes ==
    {fix \in [latitude : Latitudes, longitude : Longitudes,
              speed : {NULL, <<1, 5>>, <<1, 2>>, Num(30)},
              heading : {NULL}, accuracy : {NULL}, timestamp : Timestamps] :
        OnTrack(fix)}
    \cup
    {fix \in [latitude : Latitudes, longitude : Longitudes,
              speed : {NULL, Num(30)},
              heading : {NULL}, accuracy : {Num(16)}, timestamp : Timestamps] :
        OnTrack(fix)}
    \cup
    [latitude : {4}, longitude : Longitudes, speed : {NULL},
     heading : {Num(90)}, accuracy : {NULL, Num(16)}, timestamp : {3000}]
    \cup
    [latitude : {4}, longitude : Longitudes, speed : {NULL},
     heading : {NULL}, accuracy : {NULL}, timestamp : {81000}]
    \cup
    [latitude : Latitudes \cup {FarLatitude}, longitude : Longitudes,
     speed : {Num(30)}, heading : {Num(90)}, accuracy : {Num(75)},
     timestamp : {5000}]

\* the fixes of the whole-component specification: a fast and a speedless
\* fix along the track, and fixes with a heading, one of them rejected
AppFixes ==
    {fix \in [latitude : Latitudes, longitude : Longitudes,
              speed : {NULL, Num(30)},
              heading : {NULL}, accuracy : {NULL}, timestamp : {1000, 3000}] :
        OnTrack(fix)}
    \cup
    [latitude : {4}, longitude : Longitudes, speed : {NULL},
     heading : {Num(90)}, accuracy : {NULL, Num(75)}, timestamp : {3000}]

Limits == {Num(50), Num(100)}
CompassHeadings == {NULL, Num(45)}
Alphas == {NULL, Num(270)}

NoError == "null"

\* ----------------------------------------------------------------- state
VARIABLES
    speedMS, unit, activeUnits, maxSpeedMS, avgSpeedMS, heading, accuracy,
    currentPos, speedLimit, isAlertActive, error,      \* useState
    totalDistance, totalTime, lastLocation, speedBuffer, alertPlayed, \* useRef
    geolocation,    \* whether navigator.geolocation exists
    rendered,       \* the state values of the last committed render
    dirty,          \* a callback has run since the last commit
    playCount,      \* calls of playAlert
    nEvents, lastOp,
    lastFix,        \* the fix last delivered to handleLocationUpdate
    lastOrientation, \* the event last delivered to handleOrientation
    lastToggled,    \* the unit last given to toggleUnitVisibility
    peakSpeed,      \* largest displayed speed produced by a fix since the last reset
    pushed,         \* the candidates pushed, the 10 most recent
    pushedSinceReset, wasReset,
    runCount, prevOver  \* runs of latch evaluations over the limit

reactState == <<speedMS, unit, activeUnits, maxSpeedMS, avgSpeedMS, heading,
                accuracy, currentPos, speedLimit, isAlertActive, error>>
refs == <<totalDistance, totalTime, lastLocation, speedBuffer, alertPlayed>>
history == <<nEvents, lastOp, lastFix, lastOrientation, lastToggled, peakSpeed, pushed,
             pushedSinceReset, wasReset, runCount, prevOver>>
vars == <<reactState, refs, geolocation, rendered, dirty, playCount, history>>

snapshot == [maxSpeedMS |-> maxSpeedMS, speedMS |-> speedMS,
             speedLimit |-> speedLimit, unit |-> unit, activeUnits |-> activeUnits]

Init ==
    /\ speedMS = Num(0)
    /\ unit = KMH
    /\ activeUnits = <<KMH, MPH, MS>>
    /\ maxSpeedMS = Num(0)
    /\ avgSpeedMS = Num(0)
    /\ heading = NULL
    /\ accuracy = NULL
    /\ currentPos = [lat |-> NULL, lng |-> NULL]
    /\ speedLimit = Num(100)
    /\ isAlertActive = FALSE
    /\ geolocation \in BOOLEAN
    /\ error = IF geolocation THEN NoError ELSE "Geolocation not supported"
    /\ totalDistance = Num(0)
    /\ totalTime = Num(0)
    /\ lastLocation = <<>>
    /\ speedBuffer = <<>>
    /\ alertPlayed = FALSE
    /\ rendered = [maxSpeedMS |-> Num(0), speedMS |-> Num(0),
                   speedLimit |-> Num(100), unit |-> KMH,
                   activeUnits |-> <<KMH, MPH, MS>>]
    /\ dirty = FALSE
    /\ playCount = 0
    /\ nEvents = 0
    /\ lastOp = "mount"
    /\ lastFix = <<>>
    /\ lastOrientation = <<>>
    /\ lastToggled = <<>>
    /\ peakSpeed = Num(0)
    /\ pushed = <<>>
    /\ pushedSinceReset = 0
    /\ wasReset = FALSE
    /\ runCount = 0
    /\ prevOver = FALSE

\* the browser may deliver an event before React has committed the render
\* the previous callbacks asked for, so a callback runs whether or not a
\* commit is outstanding
CanRun == nEvents < MaxEvents

Ran(op) ==
    /\ nEvents' = nEvents + 1
    /\ dirty' = TRUE
    /\ lastOp' = op

LastN(s, n) == IF Len(s) <= n THEN s ELSE SubSeq(s, Len(s) - n + 1, Len(s))

\* --------------------------------------------------------------- actions
\* handleLocationUpdate, as registered with watchPosition by the last commit
HandleLocationUpdate(fix) ==
    /\ geolocation
    /\ CanRun
    /\ currentPos' = [lat |-> Num(fix.latitude), lng |-> Num(fix.longitude)]
    /\ accuracy' = fix.accuracy
    /\ Ran("location")
    /\ lastFix' = <<fix>>
    /\ IF isUnreliable(fix.accuracy)
       THEN /\ UNCHANGED <<speedMS, unit, activeUnits, maxSpeedMS, avgSpeedMS,
                           heading, speedLimit, isAlertActive, error, refs,
                           peakSpeed, pushed, pushedSinceReset>>
       ELSE LET candidate == currentSpeed(lastLocation, fix)
                accrues == accruesTrip(lastLocation, fix)
                buffer == pushSample(speedBuffer, candidate)
                display == finalDisplaySpeed(smoothSpeed(buffer))
            IN  /\ lastLocation' = baselineOf(fix)
                /\ totalDistance' =
                       IF accrues
                       THEN RAdd(totalDistance, distMeters(lastLocation[1], fix))
                       ELSE totalDistance
                /\ totalTime' =
                       IF accrues
                       THEN RAdd(totalTime, timeDiffSeconds(lastLocation[1], fix))
                       ELSE totalTime
                /\ avgSpeedMS' =
                       IF accrues THEN averageSpeed(totalDistance', totalTime') ELSE avgSpeedMS
                /\ speedBuffer' = buffer
                /\ speedMS' = display
                /\ heading' = IF fix.heading # NULL THEN fix.heading ELSE heading
                /\ maxSpeedMS' = nextMaxSpeed(display, rendered.maxSpeedMS, maxSpeedMS)
                /\ peakSpeed' = RMax(peakSpeed, display)
                /\ pushed' = LastN(Append(pushed, candidate), BufferCapacity)
                /\ pushedSinceReset' =
                       IF pushedSinceReset < BufferCapacity
                       THEN pushedSinceReset + 1 ELSE pushedSinceReset
                /\ UNCHANGED <<unit, activeUnits, speedLimit, isAlertActive, error,
                               alertPlayed>>
    /\ UNCHANGED <<geolocation, rendered, playCount, lastOrientation, lastToggled,
                   wasReset,
                   runCount, prevOver>>

\* the error callback of watchPosition
HandleLocationError ==
    /\ geolocation
    /\ CanRun
    /\ Ran("error")
    /\ error' = "GPS Signal Lost or Permission Denied"
    /\ UNCHANGED <<speedMS, unit, activeUnits, maxSpeedMS, avgSpeedMS, heading,
                   accuracy, currentPos, speedLimit, isAlertActive, refs,
                   geolocation, rendered, playCount, lastFix, lastOrientation,
                   lastToggled, peakSpeed, pushed, pushedSinceReset, wasReset, runCount, prevOver>>

HandleOrientationBlanks(webkitCompassHeading, alpha) ==
    /\ CanRun
    /\ Ran("orientation")
    /\ lastOrientation' = <<webkitCompassHeading, alpha>>
    /\ heading' = IF webkitCompassHeading # NULL THEN webkitCompassHeading
                  ELSE IF alpha # NULL THEN RSub(Num(360), alpha)
                  ELSE NULL
    /\ UNCHANGED <<speedMS, unit, activeUnits, maxSpeedMS, avgSpeedMS, accuracy,
                   currentPos, speedLimit, isAlertActive, error, refs,
                   geolocation, rendered, playCount, lastFix, lastToggled, peakSpeed,
                   pushed, pushedSinceReset, wasReset, runCount, prevOver>>

\* the deviceorientation listener
HandleOrientation(webkitCompassHeading, alpha) ==
    /\ CanRun
    /\ Ran("orientation")
    /\ lastOrientation' = <<webkitCompassHeading, alpha>>
    /\ heading' = IF webkitCompassHeading # NULL THEN webkitCompassHeading
                  ELSE IF alpha # NULL THEN RSub(Num(360), alpha)
                  ELSE heading
    /\ UNCHANGED <<speedMS, unit, activeUnits, maxSpeedMS, avgSpeedMS, accuracy,
                   currentPos, speedLimit, isAlertActive, error, refs,
                   geolocation, rendered, playCount, lastFix, lastToggled, peakSpeed,
                   pushed, pushedSinceReset, wasReset, runCount, prevOver>>

ResetStatsClearsBaseline ==
    /\ CanRun
    /\ Ran("reset")
    /\ maxSpeedMS' = Num(0)
    /\ avgSpeedMS' = Num(0)
    /\ totalDistance' = Num(0)
    /\ totalTime' = Num(0)
    /\ speedBuffer' = zeroBuffer
    /\ speedMS' = Num(0)
    /\ lastLocation' = <<>>
    /\ peakSpeed' = Num(0)
    /\ pushedSinceReset' = 0
    /\ wasReset' = TRUE
    /\ UNCHANGED <<unit, activeUnits, heading, accuracy, currentPos, speedLimit,
                   isAlertActive, error, alertPlayed, geolocation,
                   rendered, playCount, lastFix, lastOrientation, lastToggled,
                   pushed, runCount, prevOver>>

ResetStatsClearsError ==
    /\ CanRun
    /\ Ran("reset")
    /\ maxSpeedMS' = Num(0)
    /\ avgSpeedMS' = Num(0)
    /\ totalDistance' = Num(0)
    /\ totalTime' = Num(0)
    /\ speedBuffer' = zeroBuffer
    /\ speedMS' = Num(0)
    /\ error' = NoError
    /\ peakSpeed' = Num(0)
    /\ pushedSinceReset' = 0
    /\ wasReset' = TRUE
    /\ UNCHANGED <<unit, activeUnits, heading, accuracy, currentPos, speedLimit,
                   isAlertActive, lastLocation, alertPlayed, geolocation,
                   rendered, playCount, lastFix, lastOrientation, lastToggled,
                   pushed, runCount, prevOver>>

\* resetStats
ResetStats ==
    /\ CanRun
    /\ Ran("reset")
    /\ maxSpeedMS' = Num(0)
    /\ avgSpeedMS' = Num(0)
    /\ totalDistance' = Num(0)
    /\ totalTime' = Num(0)
    /\ speedBuffer' = zeroBuffer
    /\ speedMS' = Num(0)
    /\ peakSpeed' = Num(0)
    /\ pushedSinceReset' = 0
    /\ wasReset' = TRUE
    /\ UNCHANGED <<unit, activeUnits, heading, accuracy, currentPos, speedLimit,
                   isAlertActive, error, lastLocation, alertPlayed, geolocation,
                   rendered, playCount, lastFix, lastOrientation, lastToggled,
                   pushed, runCount, prevOver>>

InSeq(x, s) == \E i \in 1..Len(s) : s[i] = x

\* React commits the state a click has set before the browser dispatches the
\* next click, so a click handler reads the unit and the unit list as they are
ClickCommitted == rendered.unit = unit /\ rendered.activeUnits = activeUnits

\* a unit button of the footer, one per unit of the rendered active list
SetUnit(u) ==
    /\ CanRun
    /\ ClickCommitted
    /\ InSeq(u, rendered.activeUnits)
    /\ Ran("unit")
    /\ unit' = u
    /\ UNCHANGED <<speedMS, activeUnits, maxSpeedMS, avgSpeedMS, heading, accuracy,
                   currentPos, speedLimit, isAlertActive, error, refs,
                   geolocation, rendered, playCount, lastFix, lastOrientation,
                   lastToggled, peakSpeed, pushed, pushedSinceReset, wasReset, runCount, prevOver>>

SetSpeedLimit(limit) ==
    /\ CanRun
    /\ Ran("limit")
    /\ speedLimit' = limit
    /\ UNCHANGED <<speedMS, unit, activeUnits, maxSpeedMS, avgSpeedMS, heading,
                   accuracy, currentPos, isAlertActive, error, refs,
                   geolocation, rendered, playCount, lastFix, lastOrientation,
                   lastToggled, peakSpeed, pushed, pushedSinceReset, wasReset, runCount, prevOver>>

toggledWithoutGuard(prev, u, selected) ==
    IF InSeq(u, prev)
    THEN SelectSeq(prev, LAMBDA item : item # u)
    ELSE Append(prev, u)

\* the updater toggleUnitVisibility hands to setActiveUnits
toggled(prev, u, selected) ==
    IF InSeq(u, prev)
    THEN IF selected = u \/ Len(prev) = 1 THEN prev
         ELSE SelectSeq(prev, LAMBDA item : item # u)
    ELSE Append(prev, u)

\* toggleUnitVisibility closes over the unit of the render that created it
ToggleUnitVisibility(u) ==
    /\ CanRun
    /\ ClickCommitted
    /\ Ran("toggle")
    /\ lastToggled' = <<u>>
    /\ activeUnits' = toggled(activeUnits, u, rendered.unit)
    /\ UNCHANGED <<speedMS, unit, maxSpeedMS, avgSpeedMS, heading, accuracy,
                   currentPos, speedLimit, isAlertActive, error, refs,
                   geolocation, rendered, playCount, lastFix, lastOrientation,
                   peakSpeed, pushed, pushedSinceReset, wasReset, runCount, prevOver>>

\* the alert effect's dependencies differ from those of the last commit
latchDepsChanged ==
    <<speedMS, speedLimit, unit>> #
        <<rendered.speedMS, rendered.speedLimit, rendered.unit>>

\* whether an evaluation of the latch calls playAlert
latchPlays(over, played) == over /\ ~played

latchPlayedNeverCleared(over, played) == over \/ played

latchPlayedNeverSet(over, played) == FALSE

\* alertPlayed.current after an evaluation of the latch
latchPlayed(over, played) == over

\* React commits a render: the callbacks are re-created from the current
\* state (the watch is re-registered) and the effects whose dependencies
\* changed run
Render ==
    /\ dirty
    /\ dirty' = FALSE
    /\ rendered' = snapshot
    /\ IF latchDepsChanged
       THEN LET over == isOverLimit(speedMS, unit, speedLimit)
            IN  /\ isAlertActive' = over
                /\ playCount' = IF latchPlays(over, alertPlayed)
                                THEN playCount + 1 ELSE playCount
                /\ alertPlayed' = latchPlayed(over, alertPlayed)
                /\ runCount' = IF over /\ ~prevOver THEN runCount + 1 ELSE runCount
                /\ prevOver' = over
                /\ lastOp' = "evaluate"
       ELSE /\ lastOp' = "render"
            /\ UNCHANGED <<isAlertActive, playCount, alertPlayed, runCount, prevOver>>
    /\ UNCHANGED <<speedMS, unit, activeUnits, maxSpeedMS, avgSpeedMS, heading,
                   accuracy, currentPos, speedLimit, error, totalDistance,
                   totalTime, lastLocation, speedBuffer, geolocation, nEvents,
                   lastFix, lastOrientation, lastToggled, peakSpeed, pushed,
                   pushedSinceReset, wasReset>>

\* the location-to-speed pipeline and the alert latch: every fix of Fixes,
\* reset, unit and limit changes, and React's commits
Next ==
    \/ \E fix \in Fixes : HandleLocationUpdate(fix)
    \/ ResetStats
    \/ \E u \in SpeedUnit : SetUnit(u)
    \/ \E limit \in Limits : SetSpeedLimit(limit)
    \/ Render

Spec == Init /\ [][Next]_vars

\* the whole component: the pipeline on the fixes of AppFixes, with the
\* location source's failures, the orientation source and the unit list
NextApp ==
    \/ \E fix \in AppFixes : HandleLocationUpdate(fix)
    \/ HandleLocationError
    \/ \E w \in CompassHeadings, a \in Alphas : HandleOrientation(w, a)
    \/ ResetStats
    \/ \E u \in SpeedUnit : SetUnit(u)
    \/ \E limit \in Limits : SetSpeedLimit(limit)
    \/ \E u \in SpeedUnit : ToggleUnitVisibility(u)
    \/ Render

SpecApp == Init /\ [][NextApp]_vars

\* ---------------------------------------------------------------- claims
\* the step is one run of the callback named op
StepOf(op) == nEvents' = nEvents + 1 /\ lastOp' = op

\* the words of the claims about one fix, measured against the baseline
Accepted(fix) == ~(fix.accuracy # NULL /\ RGt(fix.accuracy, Num(60)))

\* the step delivers a fix, lastFix'[1], to the handler
Delivered == StepOf("location")

AcceptedStep == Delivered /\ Accepted(lastFix'[1])

\* the last callback to run handled a fix it accepted
AfterAcceptedFix == lastOp = "location" /\ Accepted(lastFix[1])

HasBaseline == lastLocation # <<>>

Displacement(fix) ==
    haversineDistance(lastLocation[1].lat, lastLocation[1].lng,
                      fix.latitude, fix.longitude)

ElapsedSeconds(fix) == Norm(fix.timestamp - lastLocation[1].timestamp, 1000)

ThresholdOf(acc) ==
    RMax(Num(2), RMul(<<1, 4>>, IF acc = NULL THEN Num(5) ELSE acc))

SignificantMove(fix) ==
    /\ HasBaseline
    /\ RGt(ElapsedSeconds(fix), Num(0))
    /\ RGt(Displacement(fix), ThresholdOf(fix.accuracy))

MeanOf(samples) == RDiv(SumSeq(samples), Num(Len(samples)))

ZeroBelowTenth(mean) == IF RLt(mean, <<1, 10>>) THEN Num(0) ELSE mean

\* C1: with no reset in between, maxSpeedMS never decreases from one fix to
\* the next, and after each accepted fix it equals the largest displayed
\* speed any fix has produced since the last reset, whichever registered
\* instance of the handler runs.
C1_MaxSpeedIsRunningMaximum ==
    [][ /\ ~StepOf("reset") => RGe(maxSpeedMS', maxSpeedMS)
        /\ AcceptedStep => maxSpeedMS' = peakSpeed' ]_vars

\* C2: playAlert is called exactly once for each maximal run of latch
\* evaluations with display speed > limit: the calls and the runs are counted
\* apart and stay equal after every step, so a call happens at the first
\* evaluation of a run and at no other.
C2_AlertOncePerRun == playCount = runCount

C2_Witness == playCount = 2 /\ runCount = 2 /\ isAlertActive

\* C3 as stated: after an accepted fix the displayed speed is the mean of the
\* at most 10 most recently pushed candidates, 0 when that mean is below 0.1.
C3_DisplayIsMeanOfPushedCandidates ==
    AfterAcceptedFix => speedMS = ZeroBelowTenth(MeanOf(pushed))

\* the window the smoother averages: the candidates pushed since the last
\* reset, preceded by that reset's 10 zero samples, the 10 most recent kept
WindowSinceReset ==
    LastN((IF wasReset THEN [i \in 1..10 |-> Num(0)] ELSE <<>>)
              \o LastN(pushed, pushedSinceReset), 10)

\* C3 amended: after an accepted fix the displayed speed is the mean of the
\* 10 most recent entries of (the 10 zeros of the last reset, if any, followed
\* by the candidates pushed since), 0 when that mean is below 0.1.
C3_DisplayIsMeanOfWindow ==
    AfterAcceptedFix => speedMS = ZeroBelowTenth(MeanOf(WindowSinceReset))

\* a fast fix, a reset, a fast fix: 30 / 10 is displayed
C3_Witness ==
    /\ AfterAcceptedFix
    /\ wasReset
    /\ pushedSinceReset = 1
    /\ Len(pushed) = 2
    /\ speedMS = Num(3)

\* C4: a fix whose accuracy is present and above 60 m changes the displayed
\* position and accuracy only: displayed speed, max, average, both totals,
\* the buffer, the heading and the baseline stay as they were.
C4_RejectedFixChangesOnlyPositionAndAccuracy ==
    [][ (Delivered /\ ~Accepted(lastFix'[1])) =>
           /\ currentPos' = [lat |-> Num(lastFix'[1].latitude),
                             lng |-> Num(lastFix'[1].longitude)]
           /\ accuracy' = lastFix'[1].accuracy
           /\ UNCHANGED <<speedMS, maxSpeedMS, avgSpeedMS, totalDistance,
                          totalTime, speedBuffer, heading, lastLocation>> ]_vars

\* a rejected fix with a speed and a heading, away from a moving baseline
C4_Witness ==
    /\ lastOp = "location"
    /\ ~Accepted(lastFix[1])
    /\ HasBaseline
    /\ currentPos.lat # Num(lastLocation[1].lat)
    /\ heading = NULL
    /\ RGt(speedMS, Num(0))

\* C5: in every reachable state the displayed average speed is
\* cumulativeDistance / cumulativeTime when cumulativeTime > 0, and 0 when
\* cumulativeTime = 0.
C5_AverageIsDistanceOverTime ==
    avgSpeedMS = IF RGt(totalTime, Num(0)) THEN RDiv(totalDistance, totalTime)
                 ELSE Num(0)

C5_Witness ==
    /\ totalTime = Num(4)
    /\ totalDistance = Num(8)
    /\ avgSpeedMS = Num(2)

\* C6 as stated: a fix adds its displacement and elapsed time to the trip
\* totals exactly when a baseline exists, the elapsed time is > 0 and the
\* displacement is > max(2, 0.25 x accuracy), accuracy 5 when absent; any
\* other fix leaves both totals unchanged.
C6_AnyFixAccruesExactlyWhenSignificant ==
    [][ Delivered =>
           IF SignificantMove(lastFix'[1])
           THEN /\ totalDistance' = RAdd(totalDistance, Displacement(lastFix'[1]))
                /\ totalTime' = RAdd(totalTime, ElapsedSeconds(lastFix'[1]))
           ELSE UNCHANGED <<totalDistance, totalTime>> ]_vars

\* C6 amended: an accepted fix (accuracy absent or <= 60 m) adds its
\* displacement and elapsed time to the trip totals exactly when a baseline
\* exists, the elapsed time is > 0 and the displacement is > max(2, 0.25 x
\* accuracy), accuracy 5 when absent, whichever source the candidate speed
\* came from; any other accepted fix leaves both totals unchanged.
C6_AcceptedFixAccruesExactlyWhenSignificant ==
    [][ AcceptedStep =>
           IF SignificantMove(lastFix'[1])
           THEN /\ totalDistance' = RAdd(totalDistance, Displacement(lastFix'[1]))
                /\ totalTime' = RAdd(totalTime, ElapsedSeconds(lastFix'[1]))
           ELSE UNCHANGED <<totalDistance, totalTime>> ]_vars

\* trip totals accrued by a fix whose candidate was the device speed
C6_Witness ==
    /\ AfterAcceptedFix
    /\ lastFix[1].speed = Num(30)
    /\ totalDistance = Num(4)
    /\ totalTime = Num(2)
    /\ speedBuffer[Len(speedBuffer)] = Num(30)

\* C7: the candidate pushed for an accepted fix is the reported speed when
\* it is present and >= 0.3; otherwise displacement / elapsed seconds when a
\* baseline exists, elapsed > 0 and the displacement exceeds the threshold;
\* otherwise 0.
C7_CandidateSpeed ==
    [][ AcceptedStep =>
           speedBuffer'[Len(speedBuffer')] =
               IF lastFix'[1].speed # NULL /\ RGe(lastFix'[1].speed, <<3, 10>>)
               THEN lastFix'[1].speed
               ELSE IF SignificantMove(lastFix'[1])
                    THEN RDiv(Displacement(lastFix'[1]), ElapsedSeconds(lastFix'[1]))
                    ELSE Num(0) ]_vars

\* a reported speed below 0.3 replaced by distance differencing: 4 m in 2 s
C7_Witness ==
    /\ AfterAcceptedFix
    /\ lastFix[1].speed = <<1, 5>>
    /\ speedBuffer[Len(speedBuffer)] = Num(2)

\* C8: right after a reset the displayed speed, max speed, average speed and
\* both totals are 0 and the buffer holds exactly 10 zero samples.
C8_ResetZeroesEverything ==
    lastOp = "reset" =>
        /\ speedMS = Num(0)
        /\ maxSpeedMS = Num(0)
        /\ avgSpeedMS = Num(0)
        /\ totalDistance = Num(0)
        /\ totalTime = Num(0)
        /\ Len(speedBuffer) = 10
        /\ \A i \in 1..Len(speedBuffer) : speedBuffer[i] = Num(0)

\* a reset after two accepted fixes, the second one fast
C8_Witness ==
    /\ lastOp = "reset"
    /\ Len(pushed) = 2
    /\ pushed[2] = Num(30)
    /\ HasBaseline

\* C9: a reset leaves the baseline, the heading, the displayed position and
\* the displayed accuracy unchanged, and the first accepted fix after it is
\* measured against that baseline: when its move is significant the totals
\* become its displacement and elapsed time from the baseline.
C9_ResetKeepsBaseline ==
    [][ /\ StepOf("reset") =>
               UNCHANGED <<lastLocation, heading, currentPos, accuracy>>
        /\ ( /\ AcceptedStep
             /\ wasReset
             /\ pushedSinceReset = 0
             /\ SignificantMove(lastFix'[1]) ) =>
               /\ totalDistance' = Displacement(lastFix'[1])
               /\ totalTime' = ElapsedSeconds(lastFix'[1]) ]_vars

C9_Witness ==
    /\ AfterAcceptedFix
    /\ wasReset
    /\ pushedSinceReset = 1
    /\ Len(pushed) = 2
    /\ totalDistance = Num(4)
    /\ totalTime = Num(2)

\* C10: between resets neither total decreases, one changes only when the
\* other does, and each increase is the displacement from the baseline to
\* the new fix, above the movement threshold, with an elapsed time > 0.
C10_TotalsAdvanceTogether ==
    [][ ~StepOf("reset") =>
          /\ RGe(totalDistance', totalDistance)
          /\ RGe(totalTime', totalTime)
          /\ (totalDistance' # totalDistance) <=> (totalTime' # totalTime)
          /\ (totalDistance' # totalDistance) =>
                /\ AcceptedStep
                /\ HasBaseline
                /\ RSub(totalDistance', totalDistance) = Displacement(lastFix'[1])
                /\ RGt(Displacement(lastFix'[1]), ThresholdOf(lastFix'[1].accuracy))
                /\ RSub(totalTime', totalTime) = ElapsedSeconds(lastFix'[1])
                /\ RGt(ElapsedSeconds(lastFix'[1]), Num(0)) ]_vars

\* two accruals in a row with no reset
C10_Witness ==
    /\ ~wasReset
    /\ AfterAcceptedFix
    /\ Len(pushed) = 3
    /\ totalDistance = Num(8)
    /\ totalTime = Num(4)

\* the candidate of a fix that is not measured against the baseline
ReportedOrZero(fix) ==
    IF fix.speed # NULL /\ RGe(fix.speed, <<3, 10>>) THEN fix.speed ELSE Num(0)

\* C11: an accepted fix whose timestamp is not later than the baseline's
\* (elapsed <= 0) adds nothing to either total and leaves the average speed
\* unchanged, yet its candidate is pushed and smoothed into the displayed
\* speed and the fix becomes the baseline.
C11_NonPositiveElapsedSkipsAccrual ==
    [][ (AcceptedStep /\ HasBaseline /\ ~RGt(ElapsedSeconds(lastFix'[1]), Num(0))) =>
           /\ UNCHANGED <<totalDistance, totalTime, avgSpeedMS>>
           /\ speedBuffer' =
                  LastN(Append(speedBuffer, ReportedOrZero(lastFix'[1])), 10)
           /\ speedMS' = ZeroBelowTenth(MeanOf(speedBuffer'))
           /\ lastLocation'[1].lat = lastFix'[1].latitude
           /\ lastLocation'[1].lng = lastFix'[1].longitude
           /\ lastLocation'[1].timestamp = lastFix'[1].timestamp ]_vars

\* three accepted fixes, the second 4 m and 2 s from the first, the third
\* back at the start of the track with the first timestamp: 4 m in -2 s
C11_Witness ==
    /\ AfterAcceptedFix
    /\ Len(pushed) = 3
    /\ totalDistance = Num(4)
    /\ totalTime = Num(2)
    /\ avgSpeedMS = Num(2)
    /\ lastLocation[1].lat = 0
    /\ lastLocation[1].timestamp = 1000

\* C12: a known heading is never blanked: an accepted fix with a null heading
\* and a rejected fix leave the heading as it was, and an orientation event
\* sets the heading to the compass-heading field when present, else to
\* 360 - alpha when alpha is present, else leaves it, and changes no speed,
\* trip, buffer, baseline or alert state.
C12_HeadingNeverBlanked ==
    [][ /\ heading # NULL => heading' # NULL
        /\ (Delivered /\ (~Accepted(lastFix'[1]) \/ lastFix'[1].heading = NULL)) =>
               heading' = heading
        /\ StepOf("orientation") =>
               /\ heading' =
                      IF lastOrientation'[1] # NULL THEN lastOrientation'[1]
                      ELSE IF lastOrientation'[2] # NULL
                           THEN RSub(Num(360), lastOrientation'[2])
                           ELSE heading
               /\ UNCHANGED <<speedMS, maxSpeedMS, avgSpeedMS, totalDistance,
                              totalTime, speedBuffer, lastLocation,
                              isAlertActive, alertPlayed, playCount>> ]_vars

\* an event with both fields gave the compass heading, and an accepted fix
\* with no heading came after it
C12_Witness ==
    /\ AfterAcceptedFix
    /\ lastFix[1].heading = NULL
    /\ lastOrientation = <<Num(45), Num(270)>>
    /\ heading = Num(45)

\* the last step was a commit, and nothing has run since
Settled == ~dirty

\* C13: once the latch has been evaluated after a fix, a reset, a unit change
\* or a limit change, isAlertActive is true exactly when
\* convertFromMS(displayed speed, unit) > speedLimit.
C13_AlertActiveIffOverLimit ==
    Settled => (isAlertActive <=> RGt(convertFromMS(speedMS, unit), speedLimit))

\* 30 m/s is 108 km/h, over the limit of 100, and 67.1 mph, under it: the
\* alert that a fix raised is cleared by selecting mph, with no new fix
C13_Witness ==
    /\ lastOp = "evaluate"
    /\ speedMS = Num(30)
    /\ unit = MPH
    /\ speedLimit = Num(100)
    /\ playCount = 1
    /\ ~isAlertActive

\* C14: a source failure sets the error, and the error is terminal: with
\* no geolocation the error is set from the start, the error callback sets
\* it, and once it is set no fix, orientation event, reset, unit change or
\* limit change clears it.
C14_ErrorIsTerminal ==
    [][ /\ ~geolocation => error # NoError
        /\ StepOf("error") => error' # NoError
        /\ error # NoError => error' # NoError ]_vars

\* the error callback fired, and a fix was accepted and displayed after it
C14_Witness ==
    /\ error = "GPS Signal Lost or Permission Denied"
    /\ AfterAcceptedFix
    /\ RGt(speedMS, Num(0))

\* C15: the baseline is null while no fix has been accepted; every accepted
\* fix (accuracy absent or <= 60 m), significant move or not, makes the
\* baseline its own coordinates and timestamp; a rejected fix, a reset and
\* every other step leave the baseline as it was.
C15_BaselineIsLastAcceptedFix ==
    [][ /\ (pushed = <<>>) <=> (lastLocation = <<>>)
        /\ (pushed' = <<>>) <=> (lastLocation' = <<>>)
        /\ AcceptedStep =>
               /\ lastLocation' # <<>>
               /\ lastLocation'[1].lat = lastFix'[1].latitude
               /\ lastLocation'[1].lng = lastFix'[1].longitude
               /\ lastLocation'[1].timestamp = lastFix'[1].timestamp
        /\ ~AcceptedStep => lastLocation' = lastLocation ]_vars

\* two accepted fixes at the start of the track, 4 s apart, then a fix of
\* accuracy 75 m from far off: the baseline is still the second fix
C15_Witness ==
    /\ lastOp = "location"
    /\ ~Accepted(lastFix[1])
    /\ lastFix[1].latitude = FarLatitude
    /\ Len(pushed) = 2
    /\ totalDistance = Num(0)
    /\ HasBaseline
    /\ lastLocation[1].lat = 0
    /\ lastLocation[1].timestamp = 5000

\* C16: the mean is never taken over an empty buffer and the average is
\* never a division by a cumulative time of 0: the buffer an accepted fix
\* averages holds between 1 and 10 samples, and the totals are divided only
\* on a step that added an elapsed time > 0, which leaves cumulative time > 0.
C16_NoDivisionByZero ==
    [][ /\ AcceptedStep =>
               /\ Len(speedBuffer') >= 1
               /\ Len(speedBuffer') <= 10
               /\ speedMS' = ZeroBelowTenth(MeanOf(speedBuffer'))
        /\ (~StepOf("reset") /\ <<totalDistance, totalTime>>' # <<totalDistance, totalTime>>) =>
               /\ AcceptedStep
               /\ HasBaseline
               /\ RGt(ElapsedSeconds(lastFix'[1]), Num(0))
               /\ RGt(totalTime', Num(0))
               /\ avgSpeedMS' = RDiv(totalDistance', totalTime')
        /\ (~StepOf("reset") /\ avgSpeedMS' # avgSpeedMS) =>
               <<totalDistance, totalTime>>' # <<totalDistance, totalTime>> ]_vars

\* before any reset, the second fix is 4 m and 2 s from the first: a mean
\* over two samples and an average of 4 / 2
C16_Witness ==
    /\ ~wasReset
    /\ AfterAcceptedFix
    /\ Len(speedBuffer) = 2
    /\ speedMS = Num(1)
    /\ totalTime = Num(2)
    /\ avgSpeedMS = Num(2)

\* C17: in every reachable state the displayed, max and average speeds are
\* >= 0 and the displayed speed is exactly 0 or at least 0.1 m/s, while the
\* candidates held in the buffer are any values >= 0, not clamped.
C17_DisplayClampedCandidatesNot ==
    /\ RGe(speedMS, Num(0))
    /\ RGe(maxSpeedMS, Num(0))
    /\ RGe(avgSpeedMS, Num(0))
    /\ speedMS = Num(0) \/ RGe(speedMS, <<1, 10>>)
    /\ \A i \in 1..Len(speedBuffer) : RGe(speedBuffer[i], Num(0))

\* 4 m in 80 s: the candidate 0.05 m/s is held in the buffer as it is, and
\* the mean of 0 and 0.05 is displayed as 0
C17_Witness ==
    /\ AfterAcceptedFix
    /\ Len(speedBuffer) = 2
    /\ speedBuffer[2] = <<1, 20>>
    /\ speedMS = Num(0)

\* C18: right after every evaluation of the latch alertPlayed equals
\* isAlertActive: both are true when the displayed speed in the current unit
\* is over the limit and both are false otherwise.
C18_PlayedFlagEqualsActive ==
    lastOp = "evaluate" =>
        /\ alertPlayed = isAlertActive
        /\ alertPlayed <=> RGt(convertFromMS(speedMS, unit), speedLimit)

\* the alert sounded, and a reset brought the speed under the limit: both
\* flags are cleared by the evaluation that follows
C18_Witness ==
    /\ lastOp = "evaluate"
    /\ wasReset
    /\ playCount = 1
    /\ ~alertPlayed
    /\ ~isAlertActive

\* C19: before any reset the buffer holds the pushed candidates only, and the
\* first accepted fix displays its own candidate; after a reset the buffer
\* always holds 10 samples, and the k-th accepted fix after it, k < 10,
\* displays the sum of those k candidates over 10, 0 when that is below 0.1.
C19_WindowAtStartAndAfterReset ==
    /\ ~wasReset => speedBuffer = pushed
    /\ (~wasReset /\ AfterAcceptedFix /\ Len(pushed) = 1) => speedMS = pushed[1]
    /\ wasReset => Len(speedBuffer) = 10
    /\ (wasReset /\ AfterAcceptedFix /\ pushedSinceReset < 10) =>
           speedMS = ZeroBelowTenth(
                         RDiv(SumSeq(LastN(pushed, pushedSinceReset)), Num(10)))

\* a reset, then two fixes of 30 m/s: 60 / 10 is displayed
C19_Witness ==
    /\ wasReset
    /\ AfterAcceptedFix
    /\ pushedSinceReset = 2
    /\ Len(pushed) = 2
    /\ speedMS = Num(6)

\* C20: for every sequence of unit selections and visibility toggles the
\* active unit list is never empty, has no duplicates and contains the
\* selected unit; a toggle of the selected unit leaves the list unchanged,
\* and the unit selected by a click is one of the active list.
C20_ActiveUnitsWellFormed ==
    [][ /\ Len(activeUnits') >= 1
        /\ \A i, j \in 1..Len(activeUnits') :
               activeUnits'[i] = activeUnits'[j] => i = j
        /\ InSeq(unit', activeUnits')
        /\ StepOf("unit") => InSeq(unit', activeUnits)
        /\ StepOf("toggle") =>
               /\ unit' = unit
               /\ ( \/ lastToggled'[1] = unit
                    \/ activeUnits = <<lastToggled'[1]>> ) =>
                      activeUnits' = activeUnits ]_vars

\* the only event so far is a toggle, and the list is the initial one: the
\* toggle was of the selected unit
C20_Witness ==
    /\ lastOp = "toggle"
    /\ nEvents = 1
    /\ lastToggled = <<KMH>>
    /\ unit = KMH
    /\ activeUnits = <<KMH, MPH, MS>>

====
